---- MODULE Spec2Model ----
(***************************************************************************)
(* Model of the JobDesk backend (src/main.py): the add_message handler,    *)
(* i.e. the retrieval-augmented response pipeline                          *)
(*   embed -> rank -> assemble -> build prompt -> generate                 *)
(* together with the authentication / persistence steps around it.         *)
(*                                                                         *)
(* add_message is an "async def" without any await: on the event loop one  *)
(* invocation runs to completion before the next one starts, so the model  *)
(* handles one request at a time and keeps the state that outlives a       *)
(* request (the messages table, the shared client's session).              *)
(*                                                                         *)
(* Text is modelled as a sequence of string tokens; concatenation of text  *)
(* is concatenation of sequences.                                          *)
(***************************************************************************)
EXTENDS Integers, Sequences, FiniteSets, TLC

VARIABLES
    pc,              \* position of the handler
    nreq,            \* number of requests received so far
    authorization,   \* request: Authorization header (None or a sequence of words)
    conversation_id, \* request: path parameter
    content,         \* request: new_message.content
    user,            \* local: authenticated user
    vector,          \* local: embedding of the message
    results,         \* local: results.objects of the index query (record ids)
    context,         \* local: the assembled context text
    prompt,          \* local: the prompt text
    response,        \* local: outcome of requests.post
    reply,           \* local: the reply text
    status,          \* HTTP status answered to the caller (0: none yet)
    error,           \* what made the request fail ("" when nothing did)
    trace,           \* steps of the handler started by this request, in order
    session,         \* shared supabase client: access token of the session
    messages,        \* the messages table: rows in insertion order
    store_auth,      \* credentials under which this request queried the store
    email,           \* request: body.email of /reset-password
    reset_token,     \* request: credentials.token of /update-password
    env,             \* outcomes of the external calls of this request
    body,            \* message or detail answered to the caller
    returned,        \* rows answered by get_messages
    reset_tokens,    \* the password_reset_tokens table
    updates          \* reset tokens of the requests whose password update succeeded

vars == <<pc, nreq, authorization, conversation_id, content, user, vector,
          results, context, prompt, response, reply, status, error, trace,
          session, messages, store_auth, email, reset_token, env, body,
          returned, reset_tokens, updates>>

----------------------------------------------------------------------------
(* Bounds of the exploration *)

MaxRequests == 2

\* requests explored when only the password handlers run
MaxAuthRequests == 3

----------------------------------------------------------------------------
(* Values *)

\* Python's None
NoneVal == "<None>"

Whitespace == {"\n", "\n\n", " ", ""}

\* Authorization headers a client can send: none, or "Bearer <token>"
NoHeader == <<>>
Headers == {NoHeader, <<"Bearer", "tokA">>, <<"Bearer", "tokB">>, <<"Bearer", "bad">>}

Conversations == {"c1", "c2"}

Contents == {"hi", "looking for a data scientist role with Python and SQL"}

\* the auth service: the user a token belongs to (NoneVal: invalid token)
UserOfToken(token) ==
    CASE token = "tokA" -> "userA"
      [] token = "tokB" -> "userB"
      [] OTHER -> NoneVal

\* the conversations table: owner of each conversation
OwnerOf(conv) == IF conv = "c1" THEN "userA" ELSE "userB"

----------------------------------------------------------------------------
(* The JobDescription collection (schema: src/embed.py) *)

ScalarFields == {"role", "experience", "education", "industry"}
ListFields == {"technicalSkills", "softSkills", "responsibilities", "tools"}

\* the order in which the f-string of add_message reads the properties
FieldOrder == <<"role", "experience", "technicalSkills", "softSkills",
                "responsibilities", "tools", "education", "industry">>

Label(f) ==
    CASE f = "role" -> "Role: "
      [] f = "experience" -> "Experience: "
      [] f = "technicalSkills" -> "Technical Skills: "
      [] f = "softSkills" -> "Soft Skills: "
      [] f = "responsibilities" -> "Responsibilities: "
      [] f = "tools" -> "Tools: "
      [] f = "education" -> "Education: "
      [] f = "industry" -> "Industry: "

Delimiter == "---"

\* Objects the index can hold.  props: the properties that carry a value;
\* nulls: the properties that are present with value None.  A property in
\* neither is missing from obj.properties.
RecordIds == 1..5

Properties(id) ==
    CASE id = 1 ->
           [props |-> [role |-> "Data Scientist", experience |-> "2-4 years",
                       technicalSkills |-> <<"Python", "SQL">>,
                       softSkills |-> <<"Communication">>,
                       responsibilities |-> <<"Build models">>,
                       tools |-> <<"Git", "Docker">>,
                       education |-> "BSc", industry |-> "Technology"],
            nulls |-> {}]
      [] id = 2 ->
           [props |-> [role |-> "ML Engineer", experience |-> "5+ years",
                       technicalSkills |-> <<"PyTorch">>,
                       softSkills |-> <<>>,
                       responsibilities |-> <<"Deploy models">>,
                       tools |-> <<"AWS">>,
                       education |-> "MSc", industry |-> "Finance"],
            nulls |-> {}]
      [] id = 3 ->  \* 'tools' is missing
           [props |-> [role |-> "Data Analyst", experience |-> "Entry level",
                       technicalSkills |-> <<"Excel">>,
                       softSkills |-> <<"Teamwork">>,
                       responsibilities |-> <<"Reporting">>,
                       education |-> "BSc", industry |-> "Retail"],
            nulls |-> {}]
      [] id = 4 ->  \* 'technicalSkills' is None
           [props |-> [role |-> "AI Researcher", experience |-> "3 years",
                       softSkills |-> <<"Writing">>,
                       responsibilities |-> <<"Research">>,
                       tools |-> <<"Jupyter">>,
                       education |-> "PhD", industry |-> "Healthcare"],
            nulls |-> {"technicalSkills"}]
      [] id = 5 ->  \* 'education' is None
           [props |-> [role |-> "Chef", experience |-> "1 year",
                       technicalSkills |-> <<"Cooking">>,
                       softSkills |-> <<"Patience">>,
                       responsibilities |-> <<"Cook">>,
                       tools |-> <<"Knife">>,
                       industry |-> "Hospitality"],
            nulls |-> {"education"}]

\* the embedding model: "query: <text>" to a vector (named, not computed)
EmbeddingOf(text) == IF text = "hi" THEN "vec_hi" ELSE "vec_job"

\* cosine similarity of an object's vector to the query vector, in percent
Score(vec, id) ==
    IF vec = "vec_hi"
    THEN CASE id = 1 -> 5 [] id = 2 -> 0 [] id = 3 -> -10 [] id = 4 -> 3 [] id = 5 -> -20
    ELSE CASE id = 1 -> 90 [] id = 2 -> 60 [] id = 3 -> 40 [] id = 4 -> 30 [] id = 5 -> 10

\* the relevance floor the design asks for, in percent
RelevanceFloor == 20

\* limit=3 of the index query
K == 3

\* collection.query.near_vector(near_vector=vec, limit=limit): the objects
\* of the index nearest to vec, nearest first, at most limit of them
RECURSIVE near_vector(_, _, _)
near_vector(index, vec, limit) ==
    IF limit = 0 \/ index = {} THEN <<>>
    ELSE LET best == CHOOSE r \in index :
                        \A q \in index : Score(vec, r) >= Score(vec, q)
         IN  <<best>> \o near_vector(index \ {best}, vec, limit - 1)

----------------------------------------------------------------------------
(* Context assembly: the loop of add_message over results.objects *)

HasKey(rec, f) == f \in DOMAIN rec.props \/ f \in rec.nulls

\* the exception reading property f raises inside the f-string ("" : none)
FieldError(rec, f) ==
    IF ~HasKey(rec, f) THEN "KeyError"
    ELSE IF f \in ListFields /\ f \in rec.nulls THEN "TypeError"
    ELSE ""

\* ', '.join(list)
RECURSIVE Join(_)
Join(list) ==
    IF list = <<>> THEN <<>>
    ELSE IF Len(list) = 1 THEN <<list[1]>>
    ELSE <<list[1], ", ">> \o Join(Tail(list))

\* the text property f contributes to the f-string
FieldText(rec, f) ==
    IF f \in rec.nulls THEN <<"None">>
    ELSE IF f \in ListFields THEN Join(rec.props[f])
    ELSE <<rec.props[f]>>

\* first exception raised while rendering rec ("" when none is)
RenderError(rec) ==
    IF \A i \in 1..Len(FieldOrder) : FieldError(rec, FieldOrder[i]) = "" THEN ""
    ELSE LET i == CHOOSE j \in 1..Len(FieldOrder) :
                     /\ FieldError(rec, FieldOrder[j]) # ""
                     /\ \A k \in 1..(j-1) : FieldError(rec, FieldOrder[k]) = ""
         IN  FieldError(rec, FieldOrder[i])

RECURSIVE RenderFields(_, _)
RenderFields(rec, i) ==
    IF i > Len(FieldOrder) THEN <<>>
    ELSE <<Label(FieldOrder[i])>> \o FieldText(rec, FieldOrder[i]) \o <<"\n">>
         \o RenderFields(rec, i + 1)

\* the f-string appended to context for one object
Render(rec) == <<"\n">> \o RenderFields(rec, 1) \o <<Delimiter, "\n">>

\* the loop: [error |-> exception raised or "", text |-> context built]
RECURSIVE AssembleContext(_)
AssembleContext(objs) ==
    IF objs = <<>> THEN [error |-> "", text |-> <<>>]
    ELSE LET rec == Properties(objs[1])
         IN  IF RenderError(rec) # ""
             THEN [error |-> RenderError(rec), text |-> <<>>]
             ELSE LET rest == AssembleContext(Tail(objs))
                  IN  [error |-> rest.error,
                       text |-> IF rest.error = "" THEN Render(rec) \o rest.text
                                ELSE <<>>]

----------------------------------------------------------------------------
(* Prompt *)

Persona == "You are JobDesk, a friendly career assistant."
Instruction1 == "- If the user is just greeting you, respond with a friendly greeting and ask how you can help with their job search."
Instruction2 == "- If the user asks about jobs/careers, use the job descriptions below to help."
Instruction3 == "- Keep responses concise and relevant to what the user actually asked."
FallbackPhrase == "No specific job context needed for this query."

\* context.strip(): falsy when the text holds nothing but whitespace
IsBlank(text) == \A i \in 1..Len(text) : text[i] \in Whitespace

\* variant: the context is inserted as it is, blank or not
ContextSlot_NoFallback(ctx) == ctx

\* {context if context.strip() else "No specific job context ..."}
ContextSlot(ctx) == IF ~IsBlank(ctx) THEN ctx ELSE <<FallbackPhrase>>

BuildPrompt(msg, ctx) ==
    <<"\n", Persona, "\n\n", "User Message: ", msg, "\n\n",
      "Instructions:", "\n", Instruction1, "\n", Instruction2, "\n",
      Instruction3, "\n\n">>
    \o ContextSlot(ctx)
    \o <<"\n\n", "Response:", "\n">>

----------------------------------------------------------------------------
(* Generation *)

SentinelFetch == "Error: Could not fetch response from LLM."
SentinelGenerate == "Error: Could not generate response at the moment."

\* JSON bodies the completion service can answer with
Body(name) ==
    CASE name = "reply" ->
           [choices |-> << [message |-> [content |-> "Hello! How can I help with your job search?"]] >>]
      [] name = "null_content" ->
           [choices |-> << [message |-> [content |-> NoneVal]] >>]
      [] name = "no_choices" -> [choices |-> <<>>]
      [] name = "error_object" -> [error |-> [message |-> "rate limited"]]
      [] name = "no_message" -> [choices |-> << [text |-> "Hello"] >>]

BodyNames == {"reply", "null_content", "no_choices", "error_object", "no_message"}

\* outcomes of requests.post: an exception, or a response with a status and
\* a body that is JSON (json = TRUE, body names it) or is not
Responses ==
    {[kind |-> "transport_error", status_code |-> 0, json |-> FALSE, body |-> "error_object"]}
    \cup {[kind |-> "http", status_code |-> 200, json |-> TRUE, body |-> b] : b \in BodyNames}
    \cup {[kind |-> "http", status_code |-> 200, json |-> FALSE, body |-> "error_object"]}
    \cup {[kind |-> "http", status_code |-> s, json |-> TRUE, body |-> "error_object"] : s \in {429, 500}}

NoResponse == [kind |-> "none", status_code |-> 0, json |-> FALSE, body |-> "error_object"]

\* response.json()["choices"][0]["message"]["content"]:
\* [error |-> exception raised or "", value |-> the content]
ContentOf(resp) ==
    IF ~resp.json THEN [error |-> "JSONDecodeError", value |-> NoneVal]
    ELSE LET b == Body(resp.body) IN
         IF "choices" \notin DOMAIN b THEN [error |-> "KeyError", value |-> NoneVal]
         ELSE IF Len(b.choices) = 0 THEN [error |-> "IndexError", value |-> NoneVal]
         ELSE IF "message" \notin DOMAIN b.choices[1] THEN [error |-> "KeyError", value |-> NoneVal]
         ELSE IF "content" \notin DOMAIN b.choices[1].message THEN [error |-> "KeyError", value |-> NoneVal]
         ELSE [error |-> "", value |-> b.choices[1].message.content]

\* variant: the except branch answers with the text of the exception
ReplyOf_ExceptionText(resp) ==
    IF resp.kind = "transport_error" THEN "Error: ConnectionError"
    ELSE IF resp.status_code = 200
         THEN IF ContentOf(resp).error = "" THEN ContentOf(resp).value
              ELSE ContentOf(resp).error
         ELSE SentinelFetch

\* the try/except around requests.post: the reply of the generation stage
\* (the two sentinel texts, without their leading warning sign)
ReplyOf(resp) ==
    IF resp.kind = "transport_error" THEN SentinelGenerate
    ELSE IF resp.status_code = 200
         THEN IF ContentOf(resp).error = "" THEN ContentOf(resp).value
              ELSE SentinelGenerate
         ELSE SentinelFetch

----------------------------------------------------------------------------
(* Outcomes of the stages that can raise *)

\* variant: a failure of the model is swallowed and a zero vector returned
get_embedding_ZeroVector(text, available) ==
    IF available THEN [error |-> "", vector |-> EmbeddingOf(text)]
    ELSE [error |-> "", vector |-> "vec_zero"]

\* get_embedding(text): the model's vector, or the exception the model
\* raises when it is unavailable (there is no try/except in or around it)
get_embedding(text, available) ==
    IF available THEN [error |-> "", vector |-> EmbeddingOf(text)]
    ELSE [error |-> "EmbeddingUnavailable", vector |-> NoneVal]

\* variant: the query asks for five objects (as query_jobs of app.py does)
QueryIndex_Limit5(index, vec, reachable) ==
    IF reachable THEN [error |-> "", objects |-> near_vector(index, vec, 5)]
    ELSE [error |-> "IndexUnavailable", objects |-> <<>>]

\* collection.query.near_vector(...) against the index as it is, or the
\* exception of an unreachable index (no try/except around the call)
QueryIndex(index, vec, reachable) ==
    IF reachable THEN [error |-> "", objects |-> near_vector(index, vec, K)]
    ELSE [error |-> "IndexUnavailable", objects |-> <<>>]

\* variant: only transport errors are caught ("except RequestException"),
\* so an exception raised while reading the body leaves the stage
Generation_NarrowExcept(resp) ==
    IF resp.kind = "http" /\ resp.status_code = 200 /\ ContentOf(resp).error # ""
    THEN [error |-> ContentOf(resp).error, reply |-> NoneVal]
    ELSE [error |-> "", reply |-> ReplyOf(resp)]

\* the generation stage: "except Exception" absorbs whatever the POST or
\* the reading of the body raises
Generation(resp) == [error |-> "", reply |-> ReplyOf(resp)]

----------------------------------------------------------------------------
(* The handler add_message *)

\* no external call made yet
NoEnv == [list_ok |-> TRUE, select_ok |-> TRUE, single_raises |-> FALSE,
          insert_ok |-> TRUE, update_ok |-> TRUE, delete_ok |-> TRUE,
          send_ok |-> TRUE]

Init ==
    /\ pc = "Idle"
    /\ nreq = 0
    /\ authorization = NoHeader
    /\ conversation_id = "c1"
    /\ content = "hi"
    /\ user = NoneVal
    /\ vector = NoneVal
    /\ results = <<>>
    /\ context = <<>>
    /\ prompt = <<>>
    /\ response = NoResponse
    /\ reply = NoneVal
    /\ status = 0
    /\ error = ""
    /\ trace = <<>>
    /\ session = NoneVal
    /\ messages = <<>>
    /\ store_auth = {}
    /\ email = NoneVal
    /\ reset_token = 0
    /\ env = NoEnv
    /\ body = ""
    /\ returned = <<>>
    /\ reset_tokens = {}
    /\ updates = <<>>

request == <<authorization, conversation_id, content>>
\* what the other handlers read and write
others == <<email, reset_token, env, body, returned, reset_tokens, updates>>
locals == <<user, vector, results, context, prompt, response, reply>>

\* an exception leaves the handler: the caller is answered with code
Raise(code, exc) ==
    /\ pc' = "Failed"
    /\ status' = code
    /\ error' = exc

\* a request arrives; the previous one, if any, has been answered
Receive ==
    /\ pc \in {"Idle", "Done", "Failed"}
    /\ nreq < MaxRequests
    /\ nreq' = nreq + 1
    /\ authorization' \in Headers
    /\ conversation_id' \in Conversations
    /\ content' \in Contents
    /\ user' = NoneVal
    /\ vector' = NoneVal
    /\ results' = <<>>
    /\ context' = <<>>
    /\ prompt' = <<>>
    /\ response' = NoResponse
    /\ reply' = NoneVal
    /\ status' = 0
    /\ error' = ""
    /\ trace' = <<>>
    /\ pc' = "Start"
    /\ store_auth' = {}
    /\ email' = NoneVal
    /\ reset_token' = 0
    /\ env' = NoEnv
    /\ body' = ""
    /\ returned' = <<>>
    /\ UNCHANGED <<session, messages, reset_tokens, updates>>

\* lines 253-257: header check, get_user_from_token, set_session
Authenticate ==
    /\ pc = "Start"
    /\ trace' = Append(trace, "auth")
    /\ IF authorization = NoHeader
       THEN /\ Raise(401, "Authorization header missing")
            /\ UNCHANGED <<user, session>>
       ELSE LET token == authorization[Len(authorization)]
            IN  IF UserOfToken(token) = NoneVal
                THEN /\ Raise(401, "Invalid token")
                     /\ UNCHANGED <<user, session>>
                ELSE /\ user' = UserOfToken(token)
                     /\ session' = token
                     /\ pc' = "Authenticated"
                     /\ UNCHANGED <<status, error>>
    /\ UNCHANGED <<store_auth, others>>
    /\ UNCHANGED <<nreq, request, vector, results, context, prompt, response,
                   reply, messages>>

\* variant: the result of the ownership query is not looked at
OwnerCheck_NoCheck ==
    /\ pc = "Authenticated"
    /\ trace' = Append(trace, "owner_check")
    /\ pc' = "Owned"
    /\ store_auth' = store_auth \cup {session}
    /\ UNCHANGED others
    /\ UNCHANGED <<nreq, request, locals, status, error, session, messages>>

\* lines 259-261: the conversation must belong to the user.  With no such
\* row, .single().execute() either answers without data (404) or raises
OwnerCheck ==
    /\ pc = "Authenticated"
    /\ trace' = Append(trace, "owner_check")
    /\ IF OwnerOf(conversation_id) = user
       THEN /\ pc' = "Owned"
            /\ UNCHANGED <<status, error>>
       ELSE \/ Raise(404, "Conversation not found or access denied.")
            \/ Raise(500, "APIError")
    /\ store_auth' = store_auth \cup {session}
    /\ UNCHANGED others
    /\ UNCHANGED <<nreq, request, locals, session, messages>>

\* variant: a failed insert is logged and the handler goes on
StoreUserMessage_SwallowFailure ==
    /\ pc = "Owned"
    /\ trace' = Append(trace, "store_user")
    /\ \E stored \in BOOLEAN :
         messages' = IF stored
                     THEN Append(messages,
                            [conversation_id |-> conversation_id, role |-> "user",
                             content |-> content])
                     ELSE messages
    /\ pc' = "Received"
    /\ store_auth' = store_auth \cup {session}
    /\ UNCHANGED others
    /\ UNCHANGED <<nreq, request, locals, status, error, session>>

\* lines 263-266: store the user's message
StoreUserMessage ==
    /\ pc = "Owned"
    /\ trace' = Append(trace, "store_user")
    /\ \E stored \in BOOLEAN :
         IF stored
         THEN /\ messages' = Append(messages,
                    [conversation_id |-> conversation_id, role |-> "user",
                     content |-> content])
              /\ pc' = "Received"
              /\ UNCHANGED <<status, error>>
         ELSE /\ Raise(500, "Failed to save user message")
              /\ UNCHANGED messages
    /\ store_auth' = store_auth \cup {session}
    /\ UNCHANGED others
    /\ UNCHANGED <<nreq, request, locals, session>>

\* line 268: vector = get_embedding(new_message.content)
Embed ==
    /\ pc = "Received"
    /\ trace' = Append(trace, "embed")
    /\ \E available \in BOOLEAN :
         LET e == get_embedding(content, available)
         IN  IF e.error = ""
             THEN /\ vector' = e.vector
                  /\ pc' = "Embedded"
                  /\ UNCHANGED <<status, error>>
             ELSE /\ Raise(500, e.error)
                  /\ UNCHANGED vector
    /\ UNCHANGED <<store_auth, others>>
    /\ UNCHANGED <<nreq, request, user, results, context, prompt, response,
                   reply, session, messages>>

\* line 269: results = collection.query.near_vector(near_vector=vector, limit=3)
Rank ==
    /\ pc = "Embedded"
    /\ trace' = Append(trace, "rank")
    /\ \E index \in SUBSET RecordIds, reachable \in BOOLEAN :
         LET q == QueryIndex(index, vector, reachable)
         IN  IF q.error = ""
             THEN /\ results' = q.objects
                  /\ pc' = "Ranked"
                  /\ UNCHANGED <<status, error>>
             ELSE /\ Raise(500, q.error)
                  /\ UNCHANGED results
    /\ UNCHANGED <<store_auth, others>>
    /\ UNCHANGED <<nreq, request, user, vector, context, prompt, response,
                   reply, session, messages>>

\* lines 271-284: the context loop
Assemble ==
    /\ pc = "Ranked"
    /\ trace' = Append(trace, "assemble")
    /\ LET a == AssembleContext(results)
       IN  IF a.error = ""
           THEN /\ context' = a.text
                /\ pc' = "ContextAssembled"
                /\ UNCHANGED <<status, error>>
           ELSE /\ Raise(500, a.error)
                /\ UNCHANGED context
    /\ UNCHANGED <<store_auth, others>>
    /\ UNCHANGED <<nreq, request, user, vector, results, prompt, response,
                   reply, session, messages>>

\* lines 286-299: the prompt
PromptBuild ==
    /\ pc = "ContextAssembled"
    /\ trace' = Append(trace, "build")
    /\ prompt' = BuildPrompt(content, context)
    /\ pc' = "PromptBuilt"
    /\ UNCHANGED <<store_auth, others>>
    /\ UNCHANGED <<nreq, request, user, vector, results, context, response,
                   reply, status, error, session, messages>>

\* variant: a failed generation is tried again from the built prompt
Generate_Retry ==
    /\ pc = "PromptBuilt"
    /\ trace' = Append(trace, "generate")
    /\ \E resp \in Responses :
         /\ response' = resp
         /\ reply' = ReplyOf(resp)
         /\ pc' = IF reply' \in {SentinelFetch, SentinelGenerate} /\ Len(trace) < 10
                  THEN "PromptBuilt" ELSE "Generated"
    /\ UNCHANGED <<store_auth, others>>
    /\ UNCHANGED <<nreq, request, user, vector, results, context, prompt,
                   status, error, session, messages>>

\* lines 301-320: the POST to the completion service and its try/except
Generate ==
    /\ pc = "PromptBuilt"
    /\ trace' = Append(trace, "generate")
    /\ \E resp \in Responses :
         LET g == Generation(resp)
         IN  /\ response' = resp
             /\ IF g.error = ""
                THEN /\ reply' = g.reply
                     /\ pc' = "Generated"
                     /\ UNCHANGED <<status, error>>
                ELSE /\ Raise(500, g.error)
                     /\ UNCHANGED reply
    /\ UNCHANGED <<store_auth, others>>
    /\ UNCHANGED <<nreq, request, user, vector, results, context, prompt,
                   session, messages>>

\* lines 322-326: store the assistant's message and answer with the row;
\* response_model=Message rejects a row whose content is not a string
StoreAssistantMessage ==
    /\ pc = "Generated"
    /\ trace' = Append(trace, "store_reply")
    /\ \E stored \in BOOLEAN :
         IF stored
         THEN /\ messages' = Append(messages,
                    [conversation_id |-> conversation_id, role |-> "assistant",
                     content |-> reply])
              /\ IF reply = NoneVal
                 THEN Raise(500, "ResponseValidationError")
                 ELSE /\ pc' = "Done"
                      /\ status' = 200
                      /\ UNCHANGED error
         ELSE /\ Raise(500, "Failed to save AI message")
              /\ UNCHANGED messages
    /\ store_auth' = store_auth \cup {session}
    /\ UNCHANGED others
    /\ UNCHANGED <<nreq, request, locals, session>>

Next ==
    \/ Receive
    \/ Authenticate
    \/ OwnerCheck
    \/ StoreUserMessage
    \/ Embed
    \/ Rank
    \/ Assemble
    \/ PromptBuild
    \/ Generate
    \/ StoreAssistantMessage

Spec == Init /\ [][Next]_vars

----------------------------------------------------------------------------
(* The other handlers.  Each is an "async def" whose store and auth calls  *)
(* are synchronous, so each runs as one step.  The only await, of          *)
(* send_custom_email in request_password_reset, is followed by nothing but *)
(* the return of a constant.                                               *)

Emails == {"a@jobdesk.io", "nobody@jobdesk.io"}

\* the scan of supabase.auth.admin.list_users() for the email
UserOfEmail(e) == IF e = "a@jobdesk.io" THEN "userA" ELSE NoneVal

ResetSentMessage == "If an account with that email exists, a password reset link has been sent."
ResetErrorMessage == "An error occurred. Please try again later."
UpdatedMessage == "Password updated successfully."
UpdateErrorDetail == "Invalid token or error updating password."
NotFoundDetail == "Conversation not found or access denied."

\* a request arrives at a handler other than add_message
Arrive(max) ==
    /\ pc \in {"Idle", "Done", "Failed"}
    /\ nreq < max
    /\ nreq' = nreq + 1
    /\ content' = "hi"
    /\ user' = NoneVal
    /\ vector' = NoneVal
    /\ results' = <<>>
    /\ context' = <<>>
    /\ prompt' = <<>>
    /\ response' = NoResponse
    /\ reply' = NoneVal

\* request_password_reset: the message answered
ResetBody(known, ev) ==
    IF ~ev.list_ok THEN ResetErrorMessage
    ELSE IF ~known THEN ResetSentMessage
    ELSE IF ~ev.insert_ok THEN ResetErrorMessage
    ELSE ResetSentMessage

\* POST /reset-password (lines 151-176); the token of secrets.token_urlsafe
\* is named by the number of the request that issued it
request_password_reset(max) ==
    /\ Arrive(max)
    /\ \E e \in Emails, lo \in BOOLEAN, io \in BOOLEAN, so \in BOOLEAN :
         LET ev == [NoEnv EXCEPT !.list_ok = lo, !.insert_ok = io, !.send_ok = so]
             known == UserOfEmail(e) # NoneVal
         IN  /\ email' = e
             /\ env' = ev
             /\ body' = ResetBody(known, ev)
             /\ store_auth' = IF lo /\ known THEN {session} ELSE {}
             /\ reset_tokens' =
                  IF lo /\ known /\ io
                  THEN reset_tokens \cup
                       {[token |-> nreq', user_id |-> UserOfEmail(e), expired |-> FALSE]}
                  ELSE reset_tokens
             /\ error' = IF body' = ResetErrorMessage THEN "Exception" ELSE ""
    /\ trace' = <<"request_password_reset">>
    /\ pc' = "Done"
    /\ status' = 200
    /\ authorization' = NoHeader
    /\ conversation_id' = "c1"
    /\ reset_token' = 0
    /\ returned' = <<>>
    /\ UNCHANGED <<session, messages, updates>>

\* update_password_with_token on the table `tokens`:
\* status and detail answered, the table afterwards, whether
\* update_user_by_id succeeded
UpdateOutcome(t, tokens, ev) ==
    LET rows == {r \in tokens : r.token = t}
        failed == [status |-> 400, body |-> UpdateErrorDetail,
                   tokens |-> tokens, updated |-> FALSE]
    IN  IF ~ev.select_ok \/ rows = {} THEN failed
        ELSE LET row == CHOOSE r \in rows : TRUE
                 left == IF ev.delete_ok THEN tokens \ {row} ELSE tokens
             IN  IF row.expired THEN [failed EXCEPT !.tokens = left]
                 ELSE IF ~ev.update_ok THEN failed
                 ELSE IF ~ev.delete_ok
                      THEN [failed EXCEPT !.updated = TRUE]
                      ELSE [status |-> 200, body |-> UpdatedMessage,
                            tokens |-> left, updated |-> TRUE]

\* POST /update-password (lines 178-197)
update_password_with_token(max) ==
    /\ Arrive(max)
    /\ \E t \in 0..nreq, so \in BOOLEAN, uo \in BOOLEAN, do \in BOOLEAN :
         LET ev == [NoEnv EXCEPT !.select_ok = so, !.update_ok = uo, !.delete_ok = do]
             out == UpdateOutcome(t, reset_tokens, ev)
         IN  /\ reset_token' = t
             /\ env' = ev
             /\ status' = out.status
             /\ body' = out.body
             /\ reset_tokens' = out.tokens
             /\ updates' = IF out.updated THEN Append(updates, t) ELSE updates
             /\ pc' = IF out.status = 200 THEN "Done" ELSE "Failed"
             /\ error' = IF out.status = 200 THEN "" ELSE "HTTPException"
    /\ store_auth' = {session}
    /\ trace' = <<"update_password_with_token">>
    /\ authorization' = NoHeader
    /\ conversation_id' = "c1"
    /\ email' = NoneVal
    /\ returned' = <<>>
    /\ UNCHANGED <<session, messages>>

\* the rows of a conversation, in insertion (created_at) order
RECURSIVE MessagesOf(_, _)
MessagesOf(rows, conv) ==
    IF rows = <<>> THEN <<>>
    ELSE (IF rows[1].conversation_id = conv THEN <<rows[1]>> ELSE <<>>)
         \o MessagesOf(Tail(rows), conv)

\* get_messages: status, detail, rows answered, token given to set_session
\* (NoneVal: set_session not reached).  Inside the try, the HTTPException
\* of line 245 is caught by "except Exception" like any other exception
GetMessagesOutcome(h, conv, rows, ev) ==
    IF h = NoHeader
    THEN [status |-> 401, body |-> "Authorization header missing",
          rows |-> <<>>, session |-> NoneVal]
    ELSE IF UserOfToken(h[Len(h)]) = NoneVal
    THEN [status |-> 401, body |-> "Invalid token", rows |-> <<>>, session |-> NoneVal]
    ELSE IF OwnerOf(conv) # UserOfToken(h[Len(h)])
    THEN [status |-> 500,
          body |-> IF ev.single_raises THEN "Database error: APIError"
                   ELSE "Database error: 404: Conversation not found or access denied.",
          rows |-> <<>>, session |-> h[Len(h)]]
    ELSE IF ~ev.select_ok
    THEN [status |-> 500, body |-> "Database error: APIError",
          rows |-> <<>>, session |-> h[Len(h)]]
    ELSE [status |-> 200, body |-> "", rows |-> MessagesOf(rows, conv),
          session |-> h[Len(h)]]

\* GET /conversations/{conversation_id}/messages (lines 235-249)
get_messages(max) ==
    /\ Arrive(max)
    /\ \E h \in Headers, c \in Conversations, so \in BOOLEAN, sr \in BOOLEAN :
         LET ev == [NoEnv EXCEPT !.select_ok = so, !.single_raises = sr]
             out == GetMessagesOutcome(h, c, messages, ev)
         IN  /\ authorization' = h
             /\ conversation_id' = c
             /\ env' = ev
             /\ status' = out.status
             /\ body' = out.body
             /\ returned' = out.rows
             /\ session' = IF out.session = NoneVal THEN session ELSE out.session
             /\ store_auth' = IF out.session = NoneVal THEN {} ELSE {out.session}
             /\ pc' = IF out.status = 200 THEN "Done" ELSE "Failed"
             /\ error' = IF out.status = 200 THEN "" ELSE "HTTPException"
    /\ trace' = <<"get_messages">>
    /\ email' = NoneVal
    /\ reset_token' = 0
    /\ UNCHANGED <<messages, reset_tokens, updates>>

\* an hour passes since a token was issued (expires_at, lines 160 and 187)
Expire ==
    /\ pc \in {"Idle", "Done", "Failed"}
    /\ \E r \in reset_tokens :
         /\ ~r.expired
         /\ reset_tokens' = (reset_tokens \ {r}) \cup {[r EXCEPT !.expired = TRUE]}
    /\ UNCHANGED <<pc, nreq, request, locals, status, error, trace, session,
                   messages, store_auth, email, reset_token, env, body,
                   returned, updates>>

\* the password handlers alone
NextAuth ==
    \/ request_password_reset(MaxAuthRequests)
    \/ update_password_with_token(MaxAuthRequests)
    \/ Expire

SpecAuth == Init /\ [][NextAuth]_vars

\* all the handlers modelled
NextServer ==
    \/ Next
    \/ get_messages(MaxRequests)
    \/ request_password_reset(MaxRequests)
    \/ update_password_with_token(MaxRequests)
    \/ Expire

SpecServer == Init /\ [][NextServer]_vars

----------------------------------------------------------------------------
(* Vocabulary of the properties *)

Last(seq) == seq[Len(seq)]

Contains(text, tok) == \E i \in 1..Len(text) : text[i] = tok

\* the request failed in the step named (the last one it started)
FailedIn(step) == pc = "Failed" /\ trace # <<>> /\ Last(trace) = step

\* the generation stage has run
HasGenerated == Contains(trace, "generate") /\ ~FailedIn("generate")

\* the three kinds of generation failure: transport error, non-success
\* status, success status with a body that lacks choices[0].message.content
TransportError(resp) == resp.kind = "transport_error"
NonSuccessStatus(resp) == resp.kind = "http" /\ resp.status_code # 200
MalformedBody(resp) ==
    resp.kind = "http" /\ resp.status_code = 200 /\ ContentOf(resp).error # ""
GenerationFailure(resp) ==
    TransportError(resp) \/ NonSuccessStatus(resp) \/ MalformedBody(resp)

RequiredFields == ScalarFields \cup ListFields

\* every required field is present and not null
WellFormed(id) == \A f \in RequiredFields : f \in DOMAIN Properties(id).props

\* number of delimiters in a text
RECURSIVE CountToken(_, _)
CountToken(text, tok) ==
    IF text = <<>> THEN 0
    ELSE (IF text[1] = tok THEN 1 ELSE 0) + CountToken(Tail(text), tok)

\* the values that follow a label in a text, in order
RECURSIVE ValuesAfter(_, _)
ValuesAfter(text, label) ==
    IF Len(text) < 2 THEN <<>>
    ELSE IF text[1] = label THEN <<text[2]>> \o ValuesAfter(Tail(text), label)
    ELSE ValuesAfter(Tail(text), label)

----------------------------------------------------------------------------
(* C1: every failure of the generation stage (transport error,            *)
(* non-success status, success status with a malformed body) is absorbed   *)
(* by the stage: the step from PromptBuilt ends in Generated with a reply  *)
(* string and no error, never in Failed; and once the reply is stored the  *)
(* request is Done with status 200.                                        *)
C1_GenerationFailureAbsorbed ==
    [][ /\ (pc = "PromptBuilt" /\ pc' # pc /\ GenerationFailure(response'))
           => /\ pc' = "Generated"
              /\ reply' # NoneVal
              /\ error' = "" /\ status' = 0
        /\ (pc = "Generated" /\ GenerationFailure(response) /\ messages' # messages)
           => (pc' = "Done" /\ status' = 200)
      ]_vars

C1_Witness == pc = "Done" /\ MalformedBody(response)

----------------------------------------------------------------------------
(* C2: a failing vector-index query never moves the request to Failed: the *)
(* request goes on with an empty candidate sequence and an absent context, *)
(* so no request is ever Failed in the rank step.                          *)
C2_IndexFailureDegrades == ~FailedIn("rank")

----------------------------------------------------------------------------
(* C3: every candidate of the ranked result scores strictly above the      *)
(* relevance floor, and only such candidates are rendered in the context.  *)
C3_FloorRespected ==
    /\ \A i \in 1..Len(results) : Score(vector, results[i]) > RelevanceFloor
    /\ \A id \in RecordIds :
         (vector # NoneVal /\ Score(vector, id) <= RelevanceFloor)
         => ~Contains(context, Properties(id).props.role)

----------------------------------------------------------------------------
(* C4: a retrieved record that lacks a required field, or holds None in    *)
(* it, is in neither the ranked result nor the context, and the request    *)
(* never fails while the context is assembled.                             *)
C4_MalformedLeftOut ==
    /\ \A i \in 1..Len(results) : WellFormed(results[i])
    /\ \A id \in RecordIds :
         ~WellFormed(id) => ~Contains(context, Properties(id).props.role)
    /\ ~FailedIn("assemble")

----------------------------------------------------------------------------
(* C5: once the assembly step has run on a ranked sequence of length n,    *)
(* the context is absent (empty) when n = 0, and otherwise holds exactly n *)
(* summaries, each closed by the delimiter, whose roles are the roles of   *)
(* the ranked records in the same order.                                   *)
RolesOf(objs) ==
    [i \in 1..Len(objs) |->
        IF "role" \in DOMAIN Properties(objs[i]).props
        THEN Properties(objs[i]).props.role ELSE "None"]

C5_AssemblyRendersAll ==
    Contains(trace, "assemble")
    => /\ ~FailedIn("assemble")
       /\ Len(results) = 0 => IsBlank(context)
       /\ CountToken(context, Delimiter) = Len(results)
       /\ ValuesAfter(context, Label("role")) = RolesOf(results)

\* the same for ranked sequences whose records are all well-formed
C5_AssemblyOfWellFormed ==
    (Contains(trace, "assemble") /\ \A i \in 1..Len(results) : WellFormed(results[i]))
    => /\ ~FailedIn("assemble")
       /\ CountToken(context, Delimiter) = Len(results)
       /\ ValuesAfter(context, Label("role")) = RolesOf(results)

----------------------------------------------------------------------------
(* C6: every prompt built holds the persona, the user's message right      *)
(* after its label, the three instructions, and exactly one of: the        *)
(* context block, with every field value of every ranked record verbatim   *)
(* (when records were ranked), or the fallback phrase (when and only when  *)
(* none was).                                                              *)
HasBlock(text, block) ==
    \E i \in 1..(Len(text) - Len(block) + 1) :
        SubSeq(text, i, i + Len(block) - 1) = block

FieldVerbatim(text, id, f) ==
    LET rec == Properties(id)
    IN  IF f \notin DOMAIN rec.props THEN TRUE
        ELSE IF f \in ListFields
             THEN \A k \in 1..Len(rec.props[f]) : Contains(text, rec.props[f][k])
             ELSE Contains(text, rec.props[f])

C6_PromptComplete ==
    prompt # <<>>
    => /\ Contains(prompt, Persona)
       /\ \E i \in 1..(Len(prompt) - 1) :
            prompt[i] = "User Message: " /\ prompt[i + 1] = content
       /\ Contains(prompt, Instruction1)
       /\ Contains(prompt, Instruction2)
       /\ Contains(prompt, Instruction3)
       /\ IF Len(results) = 0
          THEN /\ Contains(prompt, FallbackPhrase)
               /\ ~Contains(prompt, Delimiter)
          ELSE /\ ~Contains(prompt, FallbackPhrase)
               /\ HasBlock(prompt, context)
               /\ CountToken(prompt, Delimiter) = Len(results)
               /\ \A i \in 1..Len(results), f \in RequiredFields :
                    FieldVerbatim(prompt, results[i], f)

C6_Witness == pc = "PromptBuilt" /\ Len(results) = 0 /\ Contains(prompt, FallbackPhrase)

----------------------------------------------------------------------------
(* C7: once the generation stage has run, the reply is never null: it is   *)
(* the content string of the first completion choice or a failure          *)
(* sentinel.                                                               *)
C7_ReplyNeverNull ==
    HasGenerated
    => /\ reply # NoneVal
       /\ \/ reply \in {SentinelFetch, SentinelGenerate}
          \/ (ContentOf(response).error = "" /\ reply = ContentOf(response).value)

----------------------------------------------------------------------------
----------------------------------------------------------------------------
(* C9: when the embedding step fails the request is Failed with an error   *)
(* status: no vector was substituted, neither the index nor the completion *)
(* service was called, there is no reply, and the last row of the messages *)
(* table is still the user's message of this request.                      *)
C9_EmbeddingFailureIsFatal ==
    /\ FailedIn("embed")
       => /\ status = 500 /\ error = "EmbeddingUnavailable"
          /\ vector = NoneVal
          /\ ~Contains(trace, "rank") /\ ~Contains(trace, "generate")
          /\ results = <<>> /\ response = NoResponse
          /\ reply = NoneVal
          /\ messages # <<>> /\ Last(messages).role = "user"
          /\ Last(messages).content = content
    /\ (vector # NoneVal => vector = EmbeddingOf(content))

C9_Witness == FailedIn("embed") /\ nreq = 2 /\ Len(messages) = 3

----------------------------------------------------------------------------
(* C10: the steps of a request run in the fixed order, each at most once   *)
(* (the steps started are a prefix of the handler's order, in which embed, *)
(* rank, assemble, build, generate are consecutive), and a request that    *)
(* has not failed is in the state that follows the last step it started:   *)
(* no state is skipped or entered twice.                                   *)
HandlerOrder == <<"auth", "owner_check", "store_user", "embed", "rank",
                  "assemble", "build", "generate", "store_reply">>

StateOrder == <<"Start", "Authenticated", "Owned", "Received", "Embedded",
                "Ranked", "ContextAssembled", "PromptBuilt", "Generated", "Done">>

C10_StagesInOrder ==
    /\ Len(trace) <= Len(HandlerOrder)
    /\ \A i \in 1..Len(trace) : trace[i] = HandlerOrder[i]
    /\ pc \notin {"Idle", "Failed"} => pc = StateOrder[Len(trace) + 1]
    /\ pc = "Idle" => trace = <<>>

C10_Witness == pc = "Done" /\ Len(trace) = 9 /\ Len(results) = 3

----------------------------------------------------------------------------
(* C12: whatever the index holds, the ranked result has at most 3 records  *)
(* and the context (and the prompt built from it) at most 3 summaries.     *)
C12_AtMostKSummaries ==
    /\ Len(results) <= 3
    /\ CountToken(context, Delimiter) <= 3
    /\ CountToken(prompt, Delimiter) <= 3

C12_Witness ==
    /\ pc = "PromptBuilt"
    /\ Len(results) = K
    /\ CountToken(context, Delimiter) = K

----------------------------------------------------------------------------
(* C13: while the request in hand has no Authorization header, an invalid  *)
(* token, or a conversation that is not the authenticated user's, no step  *)
(* changes the messages table and none of the embedding model, the vector  *)
(* index and the completion service is invoked.                            *)
Unauthorized ==
    \/ authorization = NoHeader
    \/ UserOfToken(Last(authorization)) = NoneVal
    \/ OwnerOf(conversation_id) # UserOfToken(Last(authorization))

C13_UnauthorizedTouchesNothing ==
    [][ (pc' \notin {"Idle"} /\ Contains(trace', "auth") /\ Unauthorized')
        => /\ messages' = messages
           /\ ~Contains(trace', "store_user")
           /\ ~Contains(trace', "embed")
           /\ ~Contains(trace', "rank")
           /\ ~Contains(trace', "generate")
           /\ ~Contains(trace', "store_reply")
           /\ vector' = NoneVal /\ response' = NoResponse
      ]_vars

C13_Witness ==
    /\ FailedIn("owner_check")
    /\ status = 404
    /\ OwnerOf(conversation_id) # user
    /\ nreq = 2 /\ Len(messages) = 2

----------------------------------------------------------------------------
(* C15: every stored assistant message directly follows a stored user      *)
(* message of the same conversation; there are never more user rows than   *)
(* requests nor more assistant rows than user rows; from the start of the  *)
(* pipeline until the reply is stored, and in a request that failed in     *)
(* between, the last row is this request's user message; the assistant row *)
(* is written only by the step after generation and holds the reply.       *)
CountRole(rows, r) == Cardinality({i \in 1..Len(rows) : rows[i].role = r})

UserRow == [conversation_id |-> conversation_id, role |-> "user", content |-> content]

BetweenWrites ==
    \/ pc \in {"Received", "Embedded", "Ranked", "ContextAssembled",
               "PromptBuilt", "Generated"}
    \/ FailedIn("embed") \/ FailedIn("rank") \/ FailedIn("assemble")
    \/ FailedIn("generate")
    \/ (FailedIn("store_reply") /\ error = "Failed to save AI message")

C15_UserThenAssistant ==
    /\ \A i \in 1..Len(messages) :
         messages[i].role = "assistant"
         => /\ i > 1
            /\ messages[i-1].role = "user"
            /\ messages[i-1].conversation_id = messages[i].conversation_id
    /\ CountRole(messages, "user") <= nreq
    /\ CountRole(messages, "assistant") <= CountRole(messages, "user")
    /\ BetweenWrites => (messages # <<>> /\ Last(messages) = UserRow)
    /\ (Contains(trace, "store_reply") /\ ~BetweenWrites)
       => /\ Len(messages) >= 2
          /\ messages[Len(messages) - 1] = UserRow
          /\ Last(messages).role = "assistant"
          /\ Last(messages).content = reply
          /\ Contains(trace, "generate")

C15_Witness ==
    /\ FailedIn("rank")
    /\ nreq = 2 /\ Len(messages) = 3
    /\ Last(messages) = UserRow

----------------------------------------------------------------------------
(* C11: no state written while handling one request is read while handling *)
(* another: every query a request sends to the store goes out under that   *)
(* request's own token, or under the client's key (no session) when the    *)
(* request carries no token.                                               *)
OwnCredential == IF authorization = NoHeader THEN NoneVal ELSE Last(authorization)

C11_NoStateCrossesRequests == store_auth \subseteq {OwnCredential}

----------------------------------------------------------------------------
(* C14: a reset token changes a password at most once: no token occurs     *)
(* twice among the successful password updates.                            *)
C14_TokenUsedOnce ==
    \A i \in 1..Len(updates), j \in 1..Len(updates) :
        i # j => updates[i] # updates[j]

----------------------------------------------------------------------------
(* C16: when the token is valid and the conversation is not one of the     *)
(* authenticated user's, get_messages answers 404 with the detail          *)
(* "Conversation not found or access denied." and returns no messages.     *)
C16_NotOwnedIs404 ==
    (/\ trace = <<"get_messages">>
     /\ authorization # NoHeader
     /\ UserOfToken(Last(authorization)) # NoneVal
     /\ OwnerOf(conversation_id) # UserOfToken(Last(authorization)))
    => /\ status = 404
       /\ body = NotFoundDetail
       /\ returned = <<>>

----------------------------------------------------------------------------
(* C17: the body answered by /reset-password is the body the run that      *)
(* differs only in whether the email belongs to a user would answer, under *)
(* the same outcomes of the user listing, the insert and the email send.   *)
C17_ResetBodyHidesAccount ==
    trace = <<"request_password_reset">>
    => body = ResetBody(~(UserOfEmail(email) # NoneVal), env)

====
